---- MODULE Spec2Model ----
(***************************************************************************)
(* RAG indexing-and-retrieval pipeline of services/rag_pipeline.py, and    *)
(* the entry point services/build_index.py that runs one build.            *)
(*                                                                         *)
(* State: the Firestore documents rag/<user> and rag/<user>/chunks/*, the  *)
(* RTDB nodes users/<user>/rag and users/<user>/rag/currentStep, and for   *)
(* every RAGPipeline object its position in build_rag_index with the       *)
(* locals that survive from one remote call to the next.                   *)
(*                                                                         *)
(* Every remote call (RTDB write, Firestore read/write, embedding call)    *)
(* either succeeds or raises; the number of calls that raise in one        *)
(* behaviour is bounded by MaxFaults.                                      *)
(*                                                                         *)
(* Abstractions of data the code does not branch on:                       *)
(*  - a page body is a sequence of symbols: 0 stands for markup or blank   *)
(*    text that html_to_text removes, any other symbol for one block of    *)
(*    text that the splitter returns as one piece;                         *)
(*  - a uuid4 is the pair <<run, n>> of the run that drew it and a serial; *)
(*  - a vector is [dim, head]: head holds its leading components up to the *)
(*    last non-zero one, all other components are 0;                       *)
(*  - timestamps (datetime.now) are left out of every record.              *)
(***************************************************************************)
EXTENDS Integers, Sequences, FiniteSets, TLC

(* ---------------- program constants ---------------- *)
TOP_K == 5
CHUNK_SIZE == 1000
CHUNK_OVERLAP == 200
EMBED_BATCH_SIZE == 20
PROGRESS_EVERY == 2
STORE_BATCH_SIZE == 50
EMBED_DIM == 768
PREVIEW_LEN == 200

EMBED_MODEL == "text-embedding-004"

(* ---------------- bounds of the model ---------------- *)
\* pages a user has at most
MaxPages == 2
\* text blocks of a long page
BigPage == 26
\* chunk records of the index an earlier build left behind
MaxPrior == 2
\* text blocks of a page of middle size
SmallPage == 3
\* remote calls that raise in one behaviour
MaxFaults == 2

Users == {"u1", "u2"}
\* RAGPipeline objects, each in a process of its own; object p was
\* constructed with user_id = UserOf(p)
Procs == {1, 2, 3}

\* a symbol of a page body that is markup or blank text
IsMarkup(c) == c = 0

VARIABLES
    ragDoc,        \* [user -> Firestore document rag/<user>]
    ragChunks,     \* [user -> [k -> document rag/<user>/chunks/chunk_<k>]]
    rtdbRag,       \* [user -> RTDB node users/<user>/rag without currentStep]
    currentStep,   \* [user -> RTDB node users/<user>/rag/currentStep]
    settings,      \* [user -> RTDB node users/<user>/settings/ai]
    ctor,          \* [proc -> how far RAGPipeline(user_id) has come]
    genai_client,  \* [proc -> self.genai_client]
    init_error,    \* [proc -> message of the error __init__ raised]
    user_id,       \* [proc -> self.user_id]
    batch_api,     \* models.batch_embed_contents exists in the client library
    pc,            \* [proc -> position in build_rag_index]
    pages,         \* [proc -> pages returned by load_user_pages]
    chunks,        \* [proc -> chunks returned by create_chunks_with_metadata]
    embeddings,    \* [proc -> list built by generate_embeddings]
    batch_start,   \* [proc -> loop variable of the running batch loop]
    calls,         \* [proc -> for each chunk, how the embedding call for it ended]
    chat_pc,       \* [proc -> position in rag_chat]
    query_embedding, \* [proc -> vector of the question, line 592]
    chat_result,   \* [proc -> what the last rag_chat returned]
    gen_called,    \* [proc -> the last rag_chat called generate_content]
    chat_context,  \* [proc -> context_blocks of the last rag_chat]
    chat_matches,  \* [proc -> what the last search_similar_chunks returned]
    main_out,      \* [proc -> how main of build_index.py, run in the process, ended]
    faults         \* [proc -> [kind of remote call -> calls of the process that raised]]

vars == <<ragDoc, ragChunks, rtdbRag, currentStep, settings, ctor, genai_client,
          init_error, user_id, batch_api, pc,
          pages, chunks, embeddings, batch_start, calls, chat_pc, query_embedding,
          chat_result, gen_called, chat_context, chat_matches, main_out, faults>>

\* what no step of a build changes
fixed == <<user_id, batch_api, settings, ctor, genai_client, init_error, main_out>>
chatVars == <<chat_pc, query_embedding, chat_result, gen_called, chat_context, chat_matches>>
buildVars == <<pc, pages, chunks, embeddings, batch_start, calls>>

store == <<ragDoc, ragChunks, rtdbRag>>

(* ---------------- helpers ---------------- *)
Min(a, b) == IF a <= b THEN a ELSE b

\* a vector of dimension d whose leading components are comps
RECURSIVE Strip(_)
Strip(comps) ==
    IF comps = <<>> THEN <<>>
    ELSE IF comps[Len(comps)] = 0 THEN Strip(SubSeq(comps, 1, Len(comps) - 1))
    ELSE comps

Vec(d, comps) == [dim |-> d, head |-> Strip(comps)]

\* [0.0] * 768
ZeroVector == Vec(EMBED_DIM, <<>>)

\* the vector the remote model computes for a text
RemoteVector(text) == Vec(EMBED_DIM, <<text[1], 1>>)

\* len(vector)
VecLen(v) == v.dim

(* ---------------- RTDB / Firestore records ---------------- *)
NoDoc == [exists |-> FALSE]
NoNode == [exists |-> FALSE]
\* rag_chat has not returned
NoResult == [pending |-> TRUE]

\* log_step: one RTDB set of users/<user>/rag/currentStep; ok = it did not raise
log_step(cs, u, step, status, ok) ==
    IF ok THEN [cs EXCEPT ![u] = [exists |-> TRUE, step |-> step, status |-> status]]
    ELSE cs

\* the remote calls: log_step's RTDB write, the read of pageIndex, an
\* embedding call, a Firestore read, the delete of rag/<user>, the set of
\* rag/<user>, a batch commit, the set of users/<user>/rag, generate_content,
\* the read of users/<user>/settings/ai
FaultKinds == {"log", "pages", "embed", "read", "delete", "set", "commit", "status",
               "generate", "settings"}

RECURSIVE SumOver(_, _)
SumOver(f, S) ==
    IF S = {} THEN 0
    ELSE LET x == CHOOSE y \in S : TRUE IN f[x] + SumOver(f, S \ {x})

FaultsOf(p) == SumOver(faults[p], FaultKinds)
TotalFaults == SumOver([p \in Procs |-> FaultsOf(p)], Procs)

\* used: the calls an action made, each <<kind, ok>>; those that raised
RaisedOf(used, kind) == Cardinality({i \in 1..Len(used) : used[i][1] = kind /\ ~used[i][2]})
Raised(used) == Cardinality({i \in 1..Len(used) : ~used[i][2]})

\* the calls of one action of process self: at most MaxFaults calls raise
\* in a behaviour
Charge(self, used) ==
    /\ TotalFaults + Raised(used) <= MaxFaults
    /\ faults' = [faults EXCEPT ![self] = [k \in FaultKinds |-> @[k] + RaisedOf(used, k)]]

(* ---------------- pages ---------------- *)
PageSizes == {0, 1, BigPage}

\* body of page p with n text blocks; an empty page holds markup only
PageContent(p, n) == IF n = 0 THEN <<0>> ELSE [i \in 1..n |-> 32 * p + i]

PageOf(p, n) == [id |-> p, name |-> p, content |-> PageContent(p, n)]

\* what the page index and the pages collection can hold for a user
PageConfigs ==
    UNION {{[p \in 1..n |-> PageOf(p, sizes[p])] : sizes \in [1..n -> PageSizes]}
           : n \in 0..MaxPages}

ConfigsOf(sizes) ==
    UNION {{[p \in 1..n |-> PageOf(p, sz[p])] : sz \in [1..n -> sizes]} : n \in 0..MaxPages}

ShortPageConfigs == ConfigsOf({0, 1})

SmallPageConfigs == ConfigsOf({0, SmallPage})

\* a user with no page or with one page of one text block
OnePageConfigs == {<<>>, <<PageOf(1, 1)>>}

\* the markup stays in the text
html_to_textKeepsMarkup(html_content) == html_content

\* html_to_text: drop markup and blank lines, keep the text
html_to_text(html_content) ==
    IF html_content = <<>> THEN <<>>
    ELSE SelectSeq(html_content, LAMBDA c : ~IsMarkup(c))

\* RecursiveCharacterTextSplitter.split_text: one piece per text block
split_text(text) == [i \in 1..Len(text) |-> <<text[i]>>]

\* chunk_index counts the chunks of all pages and is not reset per page
PageChunksGlobalIndex(self, page, first) ==
    LET text_content == html_to_text(page.content)
        pieces == split_text(text_content)
    IN  IF text_content = <<>> THEN <<>>
        ELSE [i \in 1..Len(pieces) |->
                [id |-> <<self, first + i>>,
                 text |-> pieces[i],
                 metadata |-> [page_id |-> page.id,
                               page_name |-> page.name,
                               chunk_index |-> first + i - 1,
                               total_chunks |-> Len(pieces),
                               char_count |-> Len(pieces[i]),
                               user_id |-> user_id[self]]]]

\* lines 307-336 for one page: the chunk documents of the page, in order;
\* first = number of chunks created before this page (serial of the uuid)
PageChunks(self, page, first) ==
    LET text_content == html_to_text(page.content)
        pieces == split_text(text_content)
    IN  IF text_content = <<>> THEN <<>>
        ELSE [i \in 1..Len(pieces) |->
                [id |-> <<self, first + i>>,
                 text |-> pieces[i],
                 metadata |-> [page_id |-> page.id,
                               page_name |-> page.name,
                               chunk_index |-> i - 1,
                               total_chunks |-> Len(pieces),
                               char_count |-> Len(pieces[i]),
                               user_id |-> user_id[self]]]]

RECURSIVE AllChunks(_, _, _)
AllChunks(self, ps, acc) ==
    IF ps = <<>> THEN acc
    ELSE AllChunks(self, Tail(ps), acc \o PageChunks(self, Head(ps), Len(acc)))

(* ---------------- the index an earlier build left ---------------- *)
\* the earlier build is run 0: its uuids are <<0, n>>
PriorChunk(u, k, m) ==
    [id |-> <<0, k + 1>>,
     text |-> <<k + 1>>,
     metadata |-> [page_id |-> 0, page_name |-> 0, chunk_index |-> k,
                   total_chunks |-> m, char_count |-> 1, user_id |-> u],
     embedding |-> RemoteVector(<<k + 1>>),
     embedding_dimension |-> EMBED_DIM]

IndexDoc(u, n, p) ==
    [exists |-> TRUE, user_id |-> u,
     metadata |-> [total_chunks |-> n, total_pages |-> p,
                   embedding_model |-> EMBED_MODEL,
                   chunk_size |-> CHUNK_SIZE, chunk_overlap |-> CHUNK_OVERLAP]]

StatusNode(u, n, p) ==
    [exists |-> TRUE, enabled |-> TRUE, total_chunks |-> n, total_pages |-> p,
     firestore_doc_id |-> u, status |-> "ready"]

PriorDoc(u, m) == IF m = 0 THEN NoDoc ELSE IndexDoc(u, m, 1)
PriorChunks(u, m) == [k \in 0..(m - 1) |-> PriorChunk(u, k, m)]
PriorStatus(u, m) == IF m = 0 THEN NoNode ELSE StatusNode(u, m, 1)

(* ---------------- __init__ ---------------- *)
UserOf(p) == IF p = 3 THEN "u2" ELSE "u1"

\* a character of an API key that str.strip removes
IsSpace(c) == c = " "

\* the node users/<user>/settings/ai: absent, or a dict of fields
NoSettings == [exists |-> FALSE]
SettingsWith(fields) == [exists |-> TRUE, fields |-> fields]

\* values of the field apiKey: empty, blank, a key with blanks around it
ApiKeys == {<<>>, <<" ">>, <<" ", "k", " ">>}

SettingsValues ==
    {NoSettings, SettingsWith([model |-> <<"m">>])}
    \cup {SettingsWith([apiKey |-> k]) : k \in ApiKeys}

\* settings of a user who can construct a pipeline
GoodSettings == SettingsWith([apiKey |-> <<" ", "k", " ">>])

\* str.strip keeps the blanks
stripNothing(str) == str

RECURSIVE lstrip(_)
lstrip(str) ==
    IF str = <<>> THEN <<>>
    ELSE IF IsSpace(Head(str)) THEN lstrip(Tail(str)) ELSE str

RECURSIVE rstrip(_)
rstrip(str) ==
    IF str = <<>> THEN <<>>
    ELSE IF IsSpace(str[Len(str)]) THEN rstrip(SubSeq(str, 1, Len(str) - 1)) ELSE str

\* str.strip() of line 141
strip(str) == rstrip(lstrip(str))

\* settings.get('apiKey', '').strip(), line 141
ApiKeyOf(snapshot) ==
    strip(IF "apiKey" \in DOMAIN snapshot.fields THEN snapshot.fields["apiKey"] ELSE <<>>)

\* genai.Client(api_key = api_key), line 146
Client(api_key) == [api_key |-> api_key]
NoClient == [none |-> TRUE]

\* the messages of lines 138, 144 and 150
NO_SETTINGS == "No AI settings found for user"
NO_API_KEY == "No Google AI API key found for user"
INIT_FAILED == "Failed to initialize Google AI client for user"
READ_FAILED == "str(e) of the failed read"

\* what _initialize_genai_client does with the node it read: the client it
\* makes, or the message of the RuntimeError it raises inside its try
InitOutcome(snapshot) ==
    IF ~snapshot.exists THEN [ok |-> FALSE, msg |-> NO_SETTINGS]
    ELSE IF ApiKeyOf(snapshot) = <<>> THEN [ok |-> FALSE, msg |-> NO_API_KEY]
    ELSE [ok |-> TRUE, client |-> Client(ApiKeyOf(snapshot))]

\* RAGPipeline(user_id): __init__ (lines 120-128) with
\* _initialize_genai_client (lines 130-152).  okGet: the read of line 135.
\* Every error of the try is raised again as a RuntimeError whose message
\* holds the message of the first (lines 149-152).
Construct(self) ==
    /\ ctor[self] = "new"
    /\ \E okGet \in BOOLEAN :
         LET out == IF okGet THEN InitOutcome(settings[user_id[self]])
                    ELSE [ok |-> FALSE, msg |-> READ_FAILED]
         IN  /\ Charge(self, <<<<"settings", okGet>>>>)
             /\ ctor' = [ctor EXCEPT ![self] = IF out.ok THEN "done" ELSE "raised"]
             /\ genai_client' = [genai_client EXCEPT ![self] =
                                    IF out.ok THEN out.client ELSE NoClient]
             /\ init_error' = [init_error EXCEPT ![self] =
                                  IF out.ok THEN <<>> ELSE <<INIT_FAILED, out.msg>>]
    /\ UNCHANGED <<store, currentStep, settings, user_id, batch_api, buildVars, chatVars,
                   main_out>>

(* ---------------- build_index.py ---------------- *)
\* main has not ended
Running == [running |-> TRUE]

\* main has ended: the exit status of the process, and whether it printed
\* "RAG build completed successfully"
Exited(status, success) == [running |-> FALSE, status |-> status, success |-> success]

(* ---------------- initial states ---------------- *)
\* every pipeline object has been constructed
Init ==
    /\ settings = [u \in Users |-> GoodSettings]
    /\ ctor = [p \in Procs |-> "done"]
    /\ genai_client = [p \in Procs |-> Client(ApiKeyOf(GoodSettings))]
    /\ init_error = [p \in Procs |-> <<>>]
    /\ \E m \in 0..MaxPrior :
         /\ ragDoc = [u \in Users |-> PriorDoc(u, m)]
         /\ ragChunks = [u \in Users |-> PriorChunks(u, m)]
         /\ rtdbRag = [u \in Users |-> PriorStatus(u, m)]
    /\ currentStep = [u \in Users |-> NoNode]
    /\ user_id = [p \in Procs |-> UserOf(p)]
    /\ batch_api \in BOOLEAN
    /\ pc = [p \in Procs |-> "idle"]
    /\ pages = [p \in Procs |-> <<>>]
    /\ chunks = [p \in Procs |-> <<>>]
    /\ embeddings = [p \in Procs |-> <<>>]
    /\ batch_start = [p \in Procs |-> 0]
    /\ calls = [p \in Procs |-> <<>>]
    /\ chat_pc = [p \in Procs |-> "idle"]
    /\ query_embedding = [p \in Procs |-> ZeroVector]
    /\ chat_result = [p \in Procs |-> NoResult]
    /\ gen_called = [p \in Procs |-> FALSE]
    /\ chat_context = [p \in Procs |-> <<>>]
    /\ chat_matches = [p \in Procs |-> <<>>]
    /\ main_out = [p \in Procs |-> Running]
    /\ faults = [p \in Procs |-> [k \in FaultKinds |-> 0]]

\* no pipeline object has been constructed yet; the AI settings of the
\* user of the first process are whatever the user saved
InitNew ==
    /\ \E saved \in SettingsValues :
         settings = [u \in Users |-> IF u = UserOf(1) THEN saved ELSE GoodSettings]
    /\ ctor = [p \in Procs |-> "new"]
    /\ genai_client = [p \in Procs |-> NoClient]
    /\ init_error = [p \in Procs |-> <<>>]
    /\ \E m \in 0..MaxPrior :
         /\ ragDoc = [u \in Users |-> PriorDoc(u, m)]
         /\ ragChunks = [u \in Users |-> PriorChunks(u, m)]
         /\ rtdbRag = [u \in Users |-> PriorStatus(u, m)]
    /\ currentStep = [u \in Users |-> NoNode]
    /\ user_id = [p \in Procs |-> UserOf(p)]
    /\ batch_api \in BOOLEAN
    /\ pc = [p \in Procs |-> "idle"]
    /\ pages = [p \in Procs |-> <<>>]
    /\ chunks = [p \in Procs |-> <<>>]
    /\ embeddings = [p \in Procs |-> <<>>]
    /\ batch_start = [p \in Procs |-> 0]
    /\ calls = [p \in Procs |-> <<>>]
    /\ chat_pc = [p \in Procs |-> "idle"]
    /\ query_embedding = [p \in Procs |-> ZeroVector]
    /\ chat_result = [p \in Procs |-> NoResult]
    /\ gen_called = [p \in Procs |-> FALSE]
    /\ chat_context = [p \in Procs |-> <<>>]
    /\ chat_matches = [p \in Procs |-> <<>>]
    /\ main_out = [p \in Procs |-> Running]
    /\ faults = [p \in Procs |-> [k \in FaultKinds |-> 0]]

(* ---------------- build_rag_index ---------------- *)
\* the first status write is a set of the node users/<user>/rag itself and
\* so replaces the status record
BuildBeginReplacesStatus(self) ==
    /\ ctor[self] = "done"
    /\ pc[self] = "idle"
    /\ \E ok \in BOOLEAN :
         /\ Charge(self, <<<<"log", ok>>>>)
         /\ currentStep' = log_step(currentStep, user_id[self], "RAG Pipeline", "starting", ok)
         /\ rtdbRag' = IF ok THEN [rtdbRag EXCEPT ![user_id[self]] = NoNode] ELSE rtdbRag
         /\ pc' = [pc EXCEPT ![self] = IF ok THEN "load" ELSE "except"]
    /\ UNCHANGED <<ragDoc, ragChunks, fixed, chatVars, pages, chunks, embeddings,
                   batch_start, calls>>

\* lines 545-550: the first status write of build_rag_index
BuildBegin(self) ==
    /\ ctor[self] = "done"
    /\ pc[self] = "idle"
    /\ \E ok \in BOOLEAN :
         /\ Charge(self, <<<<"log", ok>>>>)
         /\ currentStep' = log_step(currentStep, user_id[self], "RAG Pipeline", "starting", ok)
         /\ pc' = [pc EXCEPT ![self] = IF ok THEN "load" ELSE "except"]
    /\ UNCHANGED <<store, fixed, chatVars, pages, chunks, embeddings, batch_start, calls>>

\* load_user_pages (lines 184-290) and the check of lines 554-556.
\* okStart: log "Loading Pages"; okIndex: the read of pageIndex;
\* okDone: log "Pages Loaded"; okErr: the log of the except clause (289);
\* okNone: the log of line 555.  A page whose read raises or that does not
\* exist is left out of the result (lines 234-237, 262-268).
LoadPages(self, configs) ==
    /\ pc[self] = "load"
    /\ LET u == user_id[self] IN
       \E okStart, okIndex, okDone, okErr, okNone \in BOOLEAN, result \in configs :
         LET cs1 == log_step(currentStep, u, "Loading Pages", "starting", okStart)
             cs2 == IF okStart /\ okIndex
                    THEN log_step(cs1, u, "Pages Loaded", "completed", okDone)
                    ELSE cs1
             inTry == okStart
             failed == okStart /\ (~okIndex \/ ~okDone)
             cs3 == IF failed THEN log_step(cs2, u, "Loading Pages", "error", okErr) ELSE cs2
             loaded == okStart /\ okIndex /\ okDone
             empty == loaded /\ result = <<>>
             cs4 == IF empty THEN log_step(cs3, u, "RAG Pipeline", "completed", okNone) ELSE cs3
             used == <<<<"log", okStart>>>>
                     \o (IF inTry THEN <<<<"pages", okIndex>>>> ELSE <<>>)
                     \o (IF okStart /\ okIndex THEN <<<<"log", okDone>>>> ELSE <<>>)
                     \o (IF failed THEN <<<<"log", okErr>>>> ELSE <<>>)
                     \o (IF empty THEN <<<<"log", okNone>>>> ELSE <<>>)
         IN  \* a flag of a call that is not made is fixed, so that every
             \* outcome is drawn once
             /\ (~inTry => okIndex)
             /\ (~(okStart /\ okIndex) => okDone)
             /\ (~failed => okErr)
             /\ (~empty => okNone)
             /\ (~loaded => result = <<>>)
             /\ Charge(self, used)
             /\ currentStep' = cs4
             /\ pages' = [pages EXCEPT ![self] = result]
             /\ pc' = [pc EXCEPT ![self] =
                          IF ~loaded THEN "except"
                          ELSE IF ~empty THEN "chunk"
                          ELSE IF okNone THEN "returned" ELSE "except"]
    /\ UNCHANGED <<store, fixed, chatVars, chunks, embeddings, batch_start, calls>>

LoadUserPages(self) == LoadPages(self, PageConfigs)

\* the same for a user whose pages are all short
LoadShortPages(self) == LoadPages(self, ShortPageConfigs)

\* a user who has one short page, or has added a second one
GrowingPageConfigs == {<<PageOf(1, 1)>>, <<PageOf(1, 1), PageOf(2, 1)>>}

\* the same for a user who adds a page between two builds
LoadGrowingPages(self) == LoadPages(self, GrowingPageConfigs)

\* the same for a user with one short page at most
LoadOnePage(self) == LoadPages(self, OnePageConfigs)

\* the same for a user whose pages are empty or have SmallPage text blocks
LoadSmallPages(self) == LoadPages(self, SmallPageConfigs)

\* bodies as load_user_pages hands them on (line 244: data.get('content',
\* '').strip()): the empty string of a page without content or with blank
\* content, markup without text, one text block, text blocks inside markup
PageBodies(p) == {<<>>, <<0>>, <<32 * p + 1>>, <<0, 32 * p + 1, 0, 32 * p + 2>>}

MixedPageConfigs ==
    UNION {{[p \in 1..n |-> [id |-> p, name |-> p, content |-> body[p]]] :
               body \in {f \in [1..n -> UNION {PageBodies(q) : q \in 1..n}] :
                             \A q \in 1..n : f[q] \in PageBodies(q)}}
           : n \in 0..MaxPages}

\* the same for a user some of whose pages have no text
LoadMixedPages(self) == LoadPages(self, MixedPageConfigs)

\* create_chunks_with_metadata (lines 292-346) and the check of lines 560-562
CreateChunks(self) ==
    /\ pc[self] = "chunk"
    /\ LET u == user_id[self] IN
       \E okStart, okDone, okNone \in BOOLEAN :
         LET all_chunks == AllChunks(self, pages[self], <<>>)
             cs1 == log_step(currentStep, u, "Creating Chunks", "starting", okStart)
             cs2 == IF okStart THEN log_step(cs1, u, "Chunks Created", "completed", okDone) ELSE cs1
             created == okStart /\ okDone
             empty == created /\ all_chunks = <<>>
             cs3 == IF empty THEN log_step(cs2, u, "RAG Pipeline", "completed", okNone) ELSE cs2
             used == <<<<"log", okStart>>>>
                     \o (IF okStart THEN <<<<"log", okDone>>>> ELSE <<>>)
                     \o (IF empty THEN <<<<"log", okNone>>>> ELSE <<>>)
         IN  /\ (~okStart => okDone)
             /\ (~empty => okNone)
             /\ Charge(self, used)
             /\ currentStep' = cs3
             /\ chunks' = [chunks EXCEPT ![self] = IF created THEN all_chunks ELSE <<>>]
             /\ pc' = [pc EXCEPT ![self] =
                          IF ~created THEN "except"
                          ELSE IF ~empty THEN "embed_start"
                          ELSE IF okNone THEN "returned" ELSE "except"]
    /\ UNCHANGED <<store, fixed, chatVars, pages, embeddings, batch_start, calls>>

(* ---------------- generate_embeddings ---------------- *)
\* lines 348-360: the status write before the loop (outside every try)
EmbedStart(self) ==
    /\ pc[self] = "embed_start"
    /\ \E ok \in BOOLEAN :
         /\ Charge(self, <<<<"log", ok>>>>)
         /\ currentStep' = log_step(currentStep, user_id[self], "Generating Embeddings", "starting", ok)
         /\ pc' = [pc EXCEPT ![self] = IF ok THEN "embed" ELSE "except"]
    /\ embeddings' = [embeddings EXCEPT ![self] = <<>>]
    /\ batch_start' = [batch_start EXCEPT ![self] = 0]
    /\ calls' = [calls EXCEPT ![self] = <<>>]
    /\ UNCHANGED <<store, fixed, chatVars, pages, chunks>>

\* items of a batch whose individual embed_content call may raise
FailablePositions(n) == {1, n}

\* lines 372-379: the batched call succeeded, one vector per text
BatchVectors(batch_chunks) ==
    [i \in 1..Len(batch_chunks) |-> RemoteVector(batch_chunks[i].text)]

\* the fallback embeds the first text of the batch for every chunk
FallbackFirstText(batch_chunks, failing) ==
    [i \in 1..Len(batch_chunks) |->
        IF i \in failing THEN ZeroVector ELSE RemoteVector(batch_chunks[1].text)]

\* lines 383-392: one embed_content call per chunk; a call that raises
\* puts [0.0] * 768 in its place
FallbackVectors(batch_chunks, failing) ==
    [i \in 1..Len(batch_chunks) |->
        IF i \in failing THEN ZeroVector ELSE RemoteVector(batch_chunks[i].text)]

\* the except clause of the batch adds nothing
ZeroFillForgotten(batch_chunks) == <<>>

\* the except clause of the batch adds [0.0], a vector of one component
ZeroFillOneComponent(batch_chunks) == [i \in 1..Len(batch_chunks) |-> Vec(1, <<>>)]

\* lines 406-410: the except clause of the batch adds one zero vector per chunk
ZeroFill(batch_chunks) == [i \in 1..Len(batch_chunks) |-> ZeroVector]

\* line 399: is the progress written after this batch
ProgressDue(completed, total) ==
    completed % (EMBED_BATCH_SIZE * PROGRESS_EVERY) = 0 \/ completed = total

\* one iteration of the loop of lines 362-410.
\* okBatch: batch_embed_contents returned (only when the client has it;
\* without it the call raises AttributeError and lines 381-392 run);
\* failing: the items whose embed_content call raises; okLog: the progress
\* write of line 400.
EmbedBatch(self) ==
    /\ pc[self] = "embed"
    /\ batch_start[self] < Len(chunks[self])
    /\ LET total == Len(chunks[self])
           batch_end == Min(batch_start[self] + EMBED_BATCH_SIZE, total)
           batch_chunks == SubSeq(chunks[self], batch_start[self] + 1, batch_end)
           n == Len(batch_chunks)
       IN
       \E okBatch, okLog \in BOOLEAN, failing \in SUBSET FailablePositions(n) :
         LET inner == IF batch_api THEN BatchVectors(batch_chunks)
                      ELSE FallbackVectors(batch_chunks, failing)
             reached == ~batch_api \/ okBatch      \* line 395 is reached
             completed == Len(embeddings[self]) + n
             logged == reached /\ ProgressDue(completed, total)
             caught == (batch_api /\ ~okBatch) \/ (logged /\ ~okLog)
             appended == (IF reached THEN inner ELSE <<>>)
                         \o (IF caught THEN ZeroFill(batch_chunks) ELSE <<>>)
             ended == [i \in 1..n |->
                         IF batch_api THEN (IF okBatch THEN "ok" ELSE "batch_raised")
                         ELSE IF i \in failing THEN "raised" ELSE "ok"]
             used == (IF batch_api THEN <<<<"embed", okBatch>>>>
                      ELSE [i \in 1..Cardinality(failing) |-> <<"embed", FALSE>>])
                     \o (IF logged THEN <<<<"log", okLog>>>> ELSE <<>>)
             next_start == batch_start[self] + EMBED_BATCH_SIZE
         IN  /\ (~batch_api => okBatch)
             /\ (batch_api => failing = {})
             /\ (~logged => okLog)
             /\ Charge(self, used)
             /\ embeddings' = [embeddings EXCEPT ![self] = @ \o appended]
             /\ calls' = [calls EXCEPT ![self] = @ \o ended]
             /\ currentStep' = IF logged
                               THEN log_step(currentStep, user_id[self],
                                             "Embedding Progress", "in_progress", okLog)
                               ELSE currentStep
             /\ batch_start' = [batch_start EXCEPT ![self] = next_start]
             /\ pc' = [pc EXCEPT ![self] =
                          IF next_start < total THEN "embed" ELSE "embed_end"]
    /\ UNCHANGED <<store, fixed, chatVars, pages, chunks>>

\* lines 412-420: the status write after the loop, then return embeddings
EmbedEnd(self) ==
    /\ pc[self] = "embed_end"
    /\ \E ok \in BOOLEAN :
         /\ Charge(self, <<<<"log", ok>>>>)
         /\ currentStep' = log_step(currentStep, user_id[self], "Embeddings Generated", "completed", ok)
         /\ pc' = [pc EXCEPT ![self] = IF ok THEN "store_begin" ELSE "except"]
    /\ UNCHANGED <<store, fixed, chatVars, pages, chunks, embeddings, batch_start, calls>>

(* ---------------- store_vectors_in_firestore ---------------- *)
\* the old index document is deleted together with the first status write
StoreBeginDeletes(self) ==
    /\ pc[self] = "store_begin"
    /\ \E ok \in BOOLEAN :
         /\ Charge(self, <<<<"log", ok>>>>)
         /\ currentStep' = log_step(currentStep, user_id[self], "Storing Vectors", "starting", ok)
         /\ pc' = [pc EXCEPT ![self] = IF ok THEN "clear" ELSE "except"]
    /\ ragDoc' = [ragDoc EXCEPT ![user_id[self]] = NoDoc]
    /\ UNCHANGED <<ragChunks, rtdbRag, fixed, chatVars, pages, chunks, embeddings,
                   batch_start, calls>>

\* lines 445-452: the status write before the try of store_vectors_in_firestore
StoreBegin(self) ==
    /\ pc[self] = "store_begin"
    /\ \E ok \in BOOLEAN :
         /\ Charge(self, <<<<"log", ok>>>>)
         /\ currentStep' = log_step(currentStep, user_id[self], "Storing Vectors", "starting", ok)
         /\ pc' = [pc EXCEPT ![self] = IF ok THEN "clear" ELSE "except"]
    /\ UNCHANGED <<store, fixed, chatVars, pages, chunks, embeddings, batch_start, calls>>

\* the delete removes the document of every user
DeleteDocAll(docs, u) == [x \in DOMAIN docs |-> NoDoc]

\* DocumentReference.delete() of line 433: the document rag/<user> goes, the
\* documents of its subcollection chunks stay (Firestore deletes no
\* subcollection with its parent)
DeleteDoc(docs, u) == [docs EXCEPT ![u] = NoDoc]

\* clear_old_vectors (lines 422-443), called at line 456.
\* okStart: log of 426 (outside the try: raising leaves clear_old_vectors);
\* okGet: the read of 432; okDel: the delete of 433; okDone: the log of 435
\* or 438; okErr: the log of the except clause (442), which swallows the
\* error of the try but lets its own error out.
ClearOldVectors(self) ==
    /\ pc[self] = "clear"
    /\ LET u == user_id[self] IN
       \E okStart, okGet, okDel, okDone, okErr \in BOOLEAN :
         LET found == ragDoc[u].exists
             cs1 == log_step(currentStep, u, "Clearing Old Vectors", "starting", okStart)
             deleted == okStart /\ okGet /\ found /\ okDel
             logDone == okStart /\ okGet /\ (~found \/ okDel)
             cs2 == IF logDone
                    THEN log_step(cs1, u, IF found THEN "Old Vectors Cleared" ELSE "No Old Vectors",
                                  IF found THEN "completed" ELSE "none_found", okDone)
                    ELSE cs1
             caught == okStart /\ (~okGet \/ (found /\ ~okDel) \/ ~okDone)
             cs3 == IF caught THEN log_step(cs2, u, "Clear Vectors", "error", okErr) ELSE cs2
             used == <<<<"log", okStart>>>>
                     \o (IF okStart THEN <<<<"read", okGet>>>> ELSE <<>>)
                     \o (IF okStart /\ okGet /\ found THEN <<<<"delete", okDel>>>> ELSE <<>>)
                     \o (IF logDone THEN <<<<"log", okDone>>>> ELSE <<>>)
                     \o (IF caught THEN <<<<"log", okErr>>>> ELSE <<>>)
         IN  /\ (~okStart => okGet)
             /\ (~(okStart /\ okGet /\ found) => okDel)
             /\ (~logDone => okDone)
             /\ (~caught => okErr)
             /\ Charge(self, used)
             /\ currentStep' = cs3
             /\ ragDoc' = IF deleted THEN DeleteDoc(ragDoc, u) ELSE ragDoc
             /\ pc' = [pc EXCEPT ![self] =
                          IF okStart /\ okErr THEN "meta" ELSE "store_except"]
    /\ UNCHANGED <<ragChunks, rtdbRag, fixed, chatVars, pages, chunks, embeddings,
                   batch_start, calls>>

\* lines 465-471: chunk i (1-based here) with its vector
ChunkData(chunk, embedding) ==
    [id |-> chunk.id, text |-> chunk.text, metadata |-> chunk.metadata,
     embedding |-> embedding, embedding_dimension |-> VecLen(embedding)]

chunks_with_vectors(self) ==
    [i \in 1..Len(chunks[self]) |-> ChunkData(chunks[self][i], embeddings[self][i])]

\* line 476
unique_pages(self) ==
    Cardinality({chunks[self][i].metadata.page_id : i \in 1..Len(chunks[self])})

\* lines 458-492: combine chunks and vectors (embeddings[i] raises IndexError
\* when the list is shorter than chunks), then set the document rag/<user>
StoreMetadata(self) ==
    /\ pc[self] = "meta"
    /\ LET u == user_id[self]
           combined == Len(embeddings[self]) >= Len(chunks[self])
       IN
       \E okSet \in BOOLEAN :
         /\ (~combined => okSet)
         /\ Charge(self, IF combined THEN <<<<"set", okSet>>>> ELSE <<>>)
         /\ ragDoc' = IF combined /\ okSet
                      THEN [ragDoc EXCEPT ![u] = IndexDoc(u, Len(chunks[self]), unique_pages(self))]
                      ELSE ragDoc
         /\ pc' = [pc EXCEPT ![self] = IF combined /\ okSet THEN "commit" ELSE "store_except"]
    /\ batch_start' = [batch_start EXCEPT ![self] = 0]
    /\ UNCHANGED <<ragChunks, rtdbRag, currentStep, fixed, chatVars, pages, chunks,
                   embeddings, calls>>

\* the batch leaves out its first document
CommitBatchSkipsFirst(col, data, first, last) ==
    [k \in DOMAIN col \cup (first + 1)..(last - 1) |->
        IF k \in (first + 1)..(last - 1) THEN data[k + 1] ELSE col[k]]

\* batch.set of lines 507-510 and batch.commit of 513: the documents
\* chunk_<first> .. chunk_<last - 1> are written, all or none
CommitBatch(col, data, first, last) ==
    [k \in DOMAIN col \cup first..(last - 1) |->
        IF k \in first..(last - 1) THEN data[k + 1] ELSE col[k]]

\* one iteration of the loop of lines 500-515
StoreCommit(self) ==
    /\ pc[self] = "commit"
    /\ batch_start[self] < Len(chunks[self])
    /\ LET u == user_id[self]
           total == Len(chunks[self])
           batch_end == Min(batch_start[self] + STORE_BATCH_SIZE, total)
           next_start == batch_start[self] + STORE_BATCH_SIZE
       IN
       \E okCommit \in BOOLEAN :
         /\ Charge(self, <<<<"commit", okCommit>>>>)
         /\ ragChunks' = IF okCommit
                         THEN [ragChunks EXCEPT ![u] =
                                  CommitBatch(@, chunks_with_vectors(self), batch_start[self], batch_end)]
                         ELSE ragChunks
         /\ batch_start' = [batch_start EXCEPT ![self] = IF okCommit THEN next_start ELSE @]
         /\ pc' = [pc EXCEPT ![self] =
                      IF ~okCommit THEN "store_except"
                      ELSE IF next_start < total THEN "commit" ELSE "status"]
    /\ UNCHANGED <<ragDoc, rtdbRag, currentStep, fixed, chatVars, pages, chunks,
                   embeddings, calls>>

\* lines 517-536: set users/<user>/rag (the set replaces the node, its child
\* currentStep included), then the status write "Vectors Stored"
StoreStatus(self) ==
    /\ pc[self] = "status"
    /\ LET u == user_id[self] IN
       \E okSet, okLog \in BOOLEAN :
         LET cs1 == IF okSet THEN [currentStep EXCEPT ![u] = NoNode] ELSE currentStep
             cs2 == IF okSet THEN log_step(cs1, u, "Vectors Stored", "completed", okLog) ELSE cs1
             used == <<<<"status", okSet>>>> \o (IF okSet THEN <<<<"log", okLog>>>> ELSE <<>>)
         IN  /\ (~okSet => okLog)
             /\ Charge(self, used)
             /\ rtdbRag' = IF okSet
                           THEN [rtdbRag EXCEPT ![u] = StatusNode(u, Len(chunks[self]), unique_pages(self))]
                           ELSE rtdbRag
             /\ currentStep' = cs2
             /\ pc' = [pc EXCEPT ![self] = IF okSet /\ okLog THEN "finish" ELSE "store_except"]
    /\ UNCHANGED <<ragDoc, ragChunks, fixed, chatVars, pages, chunks, embeddings,
                   batch_start, calls>>

\* the except clause of store_vectors_in_firestore logs and does not re-raise
StoreExceptSwallows(self) ==
    /\ pc[self] = "store_except"
    /\ \E ok \in BOOLEAN :
         /\ Charge(self, <<<<"log", ok>>>>)
         /\ currentStep' = log_step(currentStep, user_id[self], "Storing Vectors", "error", ok)
         /\ pc' = [pc EXCEPT ![self] = IF ok THEN "finish" ELSE "except"]
    /\ UNCHANGED <<store, fixed, chatVars, pages, chunks, embeddings, batch_start, calls>>

\* lines 538-541: the except clause of store_vectors_in_firestore logs and re-raises
StoreExcept(self) ==
    /\ pc[self] = "store_except"
    /\ \E ok \in BOOLEAN :
         /\ Charge(self, <<<<"log", ok>>>>)
         /\ currentStep' = log_step(currentStep, user_id[self], "Storing Vectors", "error", ok)
         /\ pc' = [pc EXCEPT ![self] = "except"]
    /\ UNCHANGED <<store, fixed, chatVars, pages, chunks, embeddings, batch_start, calls>>

\* lines 570-578: the last status write of build_rag_index, then return
BuildFinish(self) ==
    /\ pc[self] = "finish"
    /\ \E ok \in BOOLEAN :
         /\ Charge(self, <<<<"log", ok>>>>)
         /\ currentStep' = log_step(currentStep, user_id[self], "RAG Pipeline", "completed", ok)
         /\ pc' = [pc EXCEPT ![self] = IF ok THEN "returned" ELSE "except"]
    /\ UNCHANGED <<store, fixed, chatVars, pages, chunks, embeddings, batch_start, calls>>

\* lines 580-582: the except clause of build_rag_index logs and re-raises
BuildExcept(self) ==
    /\ pc[self] = "except"
    /\ \E ok \in BOOLEAN :
         /\ Charge(self, <<<<"log", ok>>>>)
         /\ currentStep' = log_step(currentStep, user_id[self], "RAG Pipeline", "error", ok)
         /\ pc' = [pc EXCEPT ![self] = "raised"]
    /\ UNCHANGED <<store, fixed, chatVars, pages, chunks, embeddings, batch_start, calls>>

\* the process running store_vectors_in_firestore is killed anywhere
\* between line 454 and line 536: it does nothing more, and what it has
\* written stays
Crash(self) ==
    /\ pc[self] \in {"clear", "meta", "commit", "status"}
    /\ pc' = [pc EXCEPT ![self] = "crashed"]
    /\ UNCHANGED <<store, currentStep, fixed, chatVars, pages, chunks, embeddings,
                   batch_start, calls, faults>>

(* ---------------- build_index.py: main ---------------- *)
\* lines 16-18 of build_index.py: not exactly one argument, exit status 1
MainUsage(self) ==
    /\ main_out[self] = Running
    /\ ctor[self] = "new"
    /\ main_out' = [main_out EXCEPT ![self] = Exited(1, FALSE)]
    /\ UNCHANGED <<store, currentStep, settings, user_id, batch_api, ctor, genai_client,
                   init_error, buildVars, chatVars, faults>>

\* the except clause prints the error and main returns: exit status 0
MainEndExitsZero(self) ==
    /\ main_out[self] = Running
    /\ \/ /\ ctor[self] = "raised" \/ pc[self] = "raised"
          /\ main_out' = [main_out EXCEPT ![self] = Exited(0, FALSE)]
       \/ /\ pc[self] = "returned"
          /\ main_out' = [main_out EXCEPT ![self] = Exited(0, TRUE)]
    /\ UNCHANGED <<store, currentStep, settings, user_id, batch_api, ctor, genai_client,
                   init_error, buildVars, chatVars, faults>>

\* lines 22-32 of build_index.py, after RAGPipeline(user_id) and
\* build_rag_index(): an exception of either is caught at line 28 and the
\* process exits with status 1 (line 32); when build_rag_index returned,
\* line 26 prints the success message and main returns
MainEnd(self) ==
    /\ main_out[self] = Running
    /\ \/ /\ ctor[self] = "raised" \/ pc[self] = "raised"
          /\ main_out' = [main_out EXCEPT ![self] = Exited(1, FALSE)]
       \/ /\ pc[self] = "returned"
          /\ main_out' = [main_out EXCEPT ![self] = Exited(0, TRUE)]
    /\ UNCHANGED <<store, currentStep, settings, user_id, batch_api, ctor, genai_client,
                   init_error, buildVars, chatVars, faults>>

(* ---------------- search_similar_chunks ---------------- *)
RECURSIVE Digits(_)
Digits(k) == IF k < 10 THEN <<k>> ELSE Digits(k \div 10) \o <<k % 10>>

RECURSIVE LexLess(_, _)
LexLess(a, b) ==
    IF b = <<>> THEN FALSE
    ELSE IF a = <<>> THEN TRUE
    ELSE IF Head(a) # Head(b) THEN Head(a) < Head(b)
    ELSE LexLess(Tail(a), Tail(b))

\* order of the document ids "chunk_<j>" and "chunk_<k>" as strings
DocIdLess(j, k) == LexLess(Digits(j), Digits(k))

RECURSIVE SortedIds(_)
SortedIds(S) ==
    IF S = {} THEN <<>>
    ELSE LET m == CHOOSE x \in S : \A y \in S \ {x} : DocIdLess(x, y)
         IN  <<m>> \o SortedIds(S \ {m})

\* chunks_collection.stream() of line 601: the documents in the order of their ids
Stream(col) == LET ids == SortedIds(DOMAIN col) IN [i \in 1..Len(ids) |-> col[ids[i]]]

RECURSIVE SumTo(_, _)
SumTo(f, n) == IF n = 0 THEN 0 ELSE f[n] + SumTo(f, n - 1)

\* line 612: zip stops at the shorter vector
Dot(q, c) ==
    LET n == Min(Min(q.dim, c.dim), Min(Len(q.head), Len(c.head)))
    IN  SumTo([i \in 1..n |-> q.head[i] * c.head[i]], n)

\* lines 613-614, squared
NormSq(v) == SumTo([i \in 1..Len(v.head) |-> v.head[i] * v.head[i]], Len(v.head))

\* the similarity dot / (norm_a * norm_b) of line 617, kept exact as
\* dot / sqrt(qq * cc)
Similarity(q, c) == [dot |-> Dot(q, c), qq |-> NormSq(q), cc |-> NormSq(c)]

Sq(x) == IF x >= 0 THEN x * x ELSE 0 - x * x

\* a < b as real numbers
ScoreLess(a, b) == Sq(a.dot) * (b.qq * b.cc) < Sq(b.dot) * (a.qq * a.cc)

\* a chunk of norm 0 is scored like any other
RECURSIVE SimilaritiesScoresZero(_, _)
SimilaritiesScoresZero(q, docs) ==
    IF docs = <<>> THEN <<>>
    ELSE <<[sim |-> Similarity(q, Head(docs).embedding), chunk |-> Head(docs)]>>
         \o SimilaritiesScoresZero(q, Tail(docs))

\* lines 605-618: the scored chunks, in stream order
RECURSIVE Similarities(_, _)
Similarities(q, docs) ==
    IF docs = <<>> THEN <<>>
    ELSE LET chunk == Head(docs)
             rest == Similarities(q, Tail(docs))
         IN  IF chunk.embedding.dim = 0 THEN rest
             ELSE IF NormSq(q) > 0 /\ NormSq(chunk.embedding) > 0
                  THEN <<[sim |-> Similarity(q, chunk.embedding), chunk |-> chunk]>> \o rest
                  ELSE rest

\* list.sort(key = similarity, reverse = True) of line 621: descending and
\* stable, equal keys keep the order they had
RECURSIVE InsertDesc(_, _)
InsertDesc(x, sorted) ==
    IF sorted = <<>> THEN <<x>>
    ELSE IF ScoreLess(Head(sorted).sim, x.sim) THEN <<x>> \o sorted
    ELSE <<Head(sorted)>> \o InsertDesc(x, Tail(sorted))

RECURSIVE SortDesc(_)
SortDesc(sims) ==
    IF sims = <<>> THEN <<>>
    ELSE InsertDesc(sims[Len(sims)], SortDesc(SubSeq(sims, 1, Len(sims) - 1)))

\* lines 620-630
TopMatches(q, docs, top_k) ==
    LET sorted == SortDesc(Similarities(q, docs))
    IN  [i \in 1..Min(top_k, Len(sorted)) |->
            [score |-> sorted[i].sim, chunk |-> sorted[i].chunk,
             metadata |-> sorted[i].chunk.metadata]]

(* ---------------- rag_chat ---------------- *)
\* vectors the remote model returns for the questions asked
QueryVectors == {Vec(EMBED_DIM, h) : h \in {<<1>>, <<0, 1>>, <<0, 0, 1>>}}

\* lines 643-647
NotFoundAnswer ==
    [answer |-> "NOT_FOUND", matches |-> <<>>,
     message |-> "No relevant content found in your knowledge base."]

\* lines 699-703
ErrorAnswer ==
    [answer |-> "Sorry, there was an error processing your question.",
     matches |-> <<>>, error |-> "str(e)"]

\* line 690
TextPreview(text) ==
    IF Len(text) > PREVIEW_LEN THEN SubSeq(text, 1, PREVIEW_LEN) \o <<"...">> ELSE text

\* the matches of the answer are listed from the last one to the first
FoundAnswerReversed(answer, matches) ==
    [answer |-> answer,
     matches |-> [i \in 1..Len(matches) |->
                     [page_name |-> matches[Len(matches) + 1 - i].metadata.page_name,
                      chunk_index |-> matches[Len(matches) + 1 - i].metadata.chunk_index,
                      score |-> matches[Len(matches) + 1 - i].score,
                      text_preview |-> TextPreview(matches[Len(matches) + 1 - i].chunk.text)]],
     context_used |-> Len(matches)]

\* lines 683-695
FoundAnswer(answer, matches) ==
    [answer |-> answer,
     matches |-> [i \in 1..Len(matches) |->
                     [page_name |-> matches[i].metadata.page_name,
                      chunk_index |-> matches[i].metadata.chunk_index,
                      score |-> matches[i].score,
                      text_preview |-> TextPreview(matches[i].chunk.text)]],
     context_used |-> Len(matches)]

\* lines 650-660
ContextBlocks(matches) ==
    [i \in 1..Len(matches) |->
        [i |-> i, page_name |-> matches[i].metadata.page_name,
         chunk_index |-> matches[i].metadata.chunk_index,
         score |-> matches[i].score, text |-> matches[i].chunk.text]]

\* what generate_content can do: raise, return no text, return a text
GenOutcomes == {"raise", "empty", "text"}

\* line 681
AnswerOf(gen) == IF gen = "empty" THEN "Sorry, I couldn't generate a response." ELSE "answer"

\* generation is called though there is no match
ShortCircuitNever(found) == FALSE

\* line 642, "if not matches": no generation call without a match
ShortCircuit(found) == found = <<>>

\* an index whose metadata does not count the chunk records stored is
\* answered with the error answer
ChatOutcomeStrict(self, found, gen) ==
    LET u == user_id[self] IN
    IF ragDoc[u].exists
       /\ ragDoc[u].metadata.total_chunks # Cardinality(DOMAIN ragChunks[u])
    THEN ErrorAnswer
    ELSE IF ShortCircuit(found) THEN NotFoundAnswer
    ELSE IF gen = "raise" THEN ErrorAnswer
    ELSE FoundAnswer(AnswerOf(gen), found)

\* lines 642-703: what rag_chat returns for the matches found and the
\* outcome gen of generate_content
ChatOutcome(self, found, gen) ==
    IF ShortCircuit(found) THEN NotFoundAnswer
    ELSE IF gen = "raise" THEN ErrorAnswer
    ELSE FoundAnswer(AnswerOf(gen), found)

\* rag_chat returns result
ChatReturn(self, result, generated, context) ==
    /\ chat_pc' = [chat_pc EXCEPT ![self] = "returned"]
    /\ chat_result' = [chat_result EXCEPT ![self] = result]
    /\ gen_called' = [gen_called EXCEPT ![self] = generated]
    /\ chat_context' = [chat_context EXCEPT ![self] = context]

\* rag_chat up to the read of the document rag/<user> (lines 636-640 and
\* 586-597).  okEmbed: the embed_content call for the question; okGet: the
\* read of line 595.  An error of either is caught at line 632 and
\* search_similar_chunks returns [], as it does when the document is absent.
ChatBegin(self) ==
    /\ ctor[self] = "done"
    /\ chat_pc[self] = "idle"
    /\ \E okEmbed, okGet \in BOOLEAN, q \in QueryVectors :
         LET used == <<<<"embed", okEmbed>>>> \o (IF okEmbed THEN <<<<"read", okGet>>>> ELSE <<>>)
             found == okEmbed /\ okGet /\ ragDoc[user_id[self]].exists
         IN  /\ (~okEmbed => okGet)
             /\ Charge(self, used)
             /\ query_embedding' = [query_embedding EXCEPT ![self] = q]
             /\ chat_matches' = [chat_matches EXCEPT ![self] = <<>>]
             /\ IF found
                THEN /\ chat_pc' = [chat_pc EXCEPT ![self] = "stream"]
                     /\ chat_result' = [chat_result EXCEPT ![self] = NoResult]
                     /\ gen_called' = [gen_called EXCEPT ![self] = FALSE]
                     /\ chat_context' = [chat_context EXCEPT ![self] = <<>>]
                ELSE ChatReturn(self, NotFoundAnswer, FALSE, <<>>)
    /\ UNCHANGED <<store, currentStep, fixed, buildVars>>

\* the rest of rag_chat (lines 599-634 and 642-703).  okStream: the read of
\* the chunks subcollection; gen: what generate_content does.
ChatFinish(self) ==
    /\ chat_pc[self] = "stream"
    /\ \E okStream \in BOOLEAN, gen \in GenOutcomes :
       \E found \in {IF okStream
                     THEN TopMatches(query_embedding[self],
                                     Stream(ragChunks[user_id[self]]), TOP_K)
                     ELSE <<>>} :
         LET asked == ~ShortCircuit(found)
             used == <<<<"read", okStream>>>>
                     \o (IF asked THEN <<<<"generate", gen # "raise">>>> ELSE <<>>)
         IN  /\ (~asked => gen = "text")
             /\ Charge(self, used)
             /\ chat_matches' = [chat_matches EXCEPT ![self] = found]
             /\ ChatReturn(self, ChatOutcome(self, found, gen), asked,
                           IF asked THEN ContextBlocks(found) ELSE <<>>)
    /\ UNCHANGED <<store, currentStep, fixed, buildVars, query_embedding>>

Next ==
    \E self \in {1} :
        \/ BuildBegin(self)
        \/ LoadUserPages(self)
        \/ CreateChunks(self)
        \/ EmbedStart(self)
        \/ EmbedBatch(self)
        \/ EmbedEnd(self)
        \/ StoreBegin(self)
        \/ ClearOldVectors(self)
        \/ StoreMetadata(self)
        \/ StoreCommit(self)
        \/ StoreStatus(self)
        \/ StoreExcept(self)
        \/ BuildFinish(self)
        \/ BuildExcept(self)

Spec == Init /\ [][Next]_vars

\* a build for a user with short pages, and questions asked for the same
\* user by a second process at any moment
NextChat ==
    \/ \E self \in {1} :
        \/ BuildBegin(self)
        \/ LoadShortPages(self)
        \/ CreateChunks(self)
        \/ EmbedStart(self)
        \/ EmbedBatch(self)
        \/ EmbedEnd(self)
        \/ StoreBegin(self)
        \/ ClearOldVectors(self)
        \/ StoreMetadata(self)
        \/ StoreCommit(self)
        \/ StoreStatus(self)
        \/ StoreExcept(self)
        \/ BuildFinish(self)
        \/ BuildExcept(self)
    \/ \E self \in {2} :
        \/ ChatBegin(self)
        \/ ChatFinish(self)

SpecChat == Init /\ [][NextChat]_vars

\* no build of the user is running
Quiescent(u) == \A p \in Procs : user_id[p] = u => pc[p] \in {"idle", "returned", "raised"}

\* a question asked of an index at rest: a build for a user whose pages are
\* empty or have SmallPage blocks runs, wholly or not at all, and then a
\* question is asked for the same user
NextSearch ==
    \/ \E self \in {1} :
        /\ \A p \in Procs : chat_pc[p] = "idle"
        /\ \/ BuildBegin(self)
           \/ LoadSmallPages(self)
           \/ CreateChunks(self)
           \/ EmbedStart(self)
           \/ EmbedBatch(self)
           \/ EmbedEnd(self)
           \/ StoreBegin(self)
           \/ ClearOldVectors(self)
           \/ StoreMetadata(self)
           \/ StoreCommit(self)
           \/ StoreStatus(self)
           \/ StoreExcept(self)
           \/ BuildFinish(self)
           \/ BuildExcept(self)
    \/ \E self \in {2} :
        /\ Quiescent(user_id[self])
        /\ \/ ChatBegin(self)
           \/ ChatFinish(self)

SpecSearch == Init /\ [][NextSearch]_vars

\* one process, as main and the test script run it: it constructs a
\* pipeline for a user, whatever the AI settings of the user are, then
\* builds the index (or not) and then asks a question
NextCtor ==
    \E self \in {1} :
        \/ Construct(self)
        \/ /\ chat_pc[self] = "idle"
           /\ \/ BuildBegin(self)
              \/ LoadShortPages(self)
              \/ CreateChunks(self)
              \/ EmbedStart(self)
              \/ EmbedBatch(self)
              \/ EmbedEnd(self)
              \/ StoreBegin(self)
              \/ ClearOldVectors(self)
              \/ StoreMetadata(self)
              \/ StoreCommit(self)
              \/ StoreStatus(self)
              \/ StoreExcept(self)
              \/ BuildFinish(self)
              \/ BuildExcept(self)
        \/ /\ pc[self] \in {"idle", "returned"}
           /\ \/ ChatBegin(self)
              \/ ChatFinish(self)

SpecCtor == InitNew /\ [][NextCtor]_vars

\* two builds at once, for two users
NextTwoUsers ==
    \E self \in {1, 3} :
        \/ BuildBegin(self)
        \/ LoadOnePage(self)
        \/ CreateChunks(self)
        \/ EmbedStart(self)
        \/ EmbedBatch(self)
        \/ EmbedEnd(self)
        \/ StoreBegin(self)
        \/ ClearOldVectors(self)
        \/ StoreMetadata(self)
        \/ StoreCommit(self)
        \/ StoreStatus(self)
        \/ StoreExcept(self)
        \/ BuildFinish(self)
        \/ BuildExcept(self)

SpecTwoUsers == Init /\ [][NextTwoUsers]_vars

\* two builds at once for the same user, no lock keeps them apart; every
\* remote call succeeds, so that neither build reaches an except clause
NextSameUser ==
    \E self \in {1, 2} :
        /\ faults' = faults
        /\ \/ BuildBegin(self)
           \/ LoadGrowingPages(self)
           \/ CreateChunks(self)
           \/ EmbedStart(self)
           \/ EmbedBatch(self)
           \/ EmbedEnd(self)
           \/ StoreBegin(self)
           \/ ClearOldVectors(self)
           \/ StoreMetadata(self)
           \/ StoreCommit(self)
           \/ StoreStatus(self)
           \/ BuildFinish(self)

SpecSameUser == Init /\ [][NextSameUser]_vars

\* no build of user u is running in a process other than self
NoOtherBuild(self) ==
    \A q \in Procs \ {self} :
        user_id[q] = user_id[self] => pc[q] \in {"idle", "returned", "raised", "crashed"}

\* builds of one user, one after the other (the caller holds a lock of the
\* user for the time of a build); a build can fail and its process can be
\* killed inside the store step
NextSerial ==
    \E self \in {1, 2} :
        /\ NoOtherBuild(self)
        /\ \/ BuildBegin(self)
           \/ LoadOnePage(self)
           \/ CreateChunks(self)
           \/ EmbedStart(self)
           \/ EmbedBatch(self)
           \/ EmbedEnd(self)
           \/ StoreBegin(self)
           \/ ClearOldVectors(self)
           \/ StoreMetadata(self)
           \/ StoreCommit(self)
           \/ StoreStatus(self)
           \/ StoreExcept(self)
           \/ BuildFinish(self)
           \/ BuildExcept(self)
           \/ Crash(self)

SpecSerial == Init /\ [][NextSerial]_vars

\* python build_index.py <user_id>: main constructs a pipeline for the
\* user, whatever the AI settings of the user are, and builds the index
NextMain ==
    \E self \in {1} :
        \/ MainUsage(self)
        \/ /\ main_out[self] = Running
           /\ \/ Construct(self)
              \/ BuildBegin(self)
              \/ LoadShortPages(self)
              \/ CreateChunks(self)
              \/ EmbedStart(self)
              \/ EmbedBatch(self)
              \/ EmbedEnd(self)
              \/ StoreBegin(self)
              \/ ClearOldVectors(self)
              \/ StoreMetadata(self)
              \/ StoreCommit(self)
              \/ StoreStatus(self)
              \/ StoreExcept(self)
              \/ BuildFinish(self)
              \/ BuildExcept(self)
        \/ MainEnd(self)

SpecMain == InitNew /\ [][NextMain]_vars

\* a build for a user some of whose pages have no text
NextMixed ==
    \E self \in {1} :
        \/ BuildBegin(self)
        \/ LoadMixedPages(self)
        \/ CreateChunks(self)
        \/ EmbedStart(self)
        \/ EmbedBatch(self)
        \/ EmbedEnd(self)
        \/ StoreBegin(self)
        \/ ClearOldVectors(self)
        \/ StoreMetadata(self)
        \/ StoreCommit(self)
        \/ StoreStatus(self)
        \/ StoreExcept(self)
        \/ BuildFinish(self)
        \/ BuildExcept(self)

SpecMixed == Init /\ [][NextMixed]_vars

(***************************************************************************)
(* Properties                                                              *)
(***************************************************************************)
\* build_rag_index is about to raise, or has raised
Raising == {"store_except", "except", "raised"}

\* the chunk records of user u that run p wrote
WrittenBy(u, p) == {k \in DOMAIN ragChunks[u] : ragChunks[u][k].id[1] = p}

\* the chunks whose own embed_content call raised
ItemFailures(p) == {i \in 1..Len(calls[p]) : calls[p][i] = "raised"}

\* the place in embeddings'[p] of chunk i, embedded in the step being taken
Slot(p, i) == Len(embeddings[p]) + (i - Len(calls[p]))

\* the chunks embedded in the step being taken
NewCalls(p) == (Len(calls[p]) + 1)..Len(calls'[p])

\* C1: when generate_embeddings returns, the list it returns holds exactly
\* one vector per chunk, whatever the embedding calls and the status writes
\* did.
C1_OneVectorPerChunk ==
    \A p \in Procs : pc[p] = "store_begin" => Len(embeddings[p]) = Len(chunks[p])

\* C2: after a build that stored n chunks has returned, the chunks
\* subcollection of the user holds exactly chunk_0 .. chunk_<n-1>, all
\* written by that build, however many records the earlier index had.
C2_OnlyNewChunksStored ==
    \A p \in Procs :
        (pc[p] = "returned" /\ chunks[p] # <<>>) =>
            /\ DOMAIN ragChunks[user_id[p]] = 0..(Len(chunks[p]) - 1)
            /\ WrittenBy(user_id[p], p) = DOMAIN ragChunks[user_id[p]]

\* C3 as stated: once an embedding call of a build has raised (a rejected
\* credential makes every such call raise), the build does not return
\* normally, no zero vector stands in for a chunk and the run writes nothing
\* to the index.
C3_AuthFailureAborts ==
    \A p \in Procs :
        (\E i \in 1..Len(calls[p]) : calls[p][i] # "ok") =>
            /\ pc[p] # "returned"
            /\ \A j \in 1..Len(embeddings[p]) : embeddings[p][j] # ZeroVector
            /\ WrittenBy(user_id[p], p) = {}

\* C3 as amended: an embedding call that raises, for whatever reason, does
\* not abort generate_embeddings; every chunk whose call raised gets the
\* zero vector of dimension 768 in its place of the batch and the loop goes
\* on.
C3_EmbedFailureDegrades ==
    [][\A p \in Procs :
          pc[p] = "embed" =>
              \A i \in NewCalls(p) :
                  calls'[p][i] # "ok" =>
                      /\ pc'[p] \in {"embed", "embed_end"}
                      /\ Slot(p, i) <= Len(embeddings'[p])
                      /\ embeddings'[p][Slot(p, i)] = ZeroVector
                      /\ VecLen(embeddings'[p][Slot(p, i)]) = EMBED_DIM]_vars

\* a build whose batched embedding call raised has returned normally and
\* has stored a zero vector
C3_Witness ==
    \E p \in Procs :
        /\ pc[p] = "returned"
        /\ \E i \in 1..Len(calls[p]) : calls[p][i] = "batch_raised"
        /\ \E k \in WrittenBy(user_id[p], p) :
               ragChunks[user_id[p]][k].embedding = ZeroVector

\* C4: when the embedding call of exactly one chunk raises, the list that
\* generate_embeddings returns has the zero vector at the place of that
\* chunk and, at the place of every other chunk, the vector the remote
\* model returned for it.
C4_OneFailureOthersKeepVectors ==
    \A p \in Procs :
        (/\ pc[p] = "store_begin"
         /\ Cardinality(ItemFailures(p)) = 1
         /\ \A i \in 1..Len(calls[p]) : calls[p][i] # "batch_raised") =>
            \A i \in 1..Len(chunks[p]) :
                /\ i <= Len(embeddings[p])
                /\ embeddings[p][i] = IF i \in ItemFailures(p) THEN ZeroVector
                                      ELSE RemoteVector(chunks[p][i].text)

\* C5 as stated: no chunk is settled by a failed batched call alone; after
\* any failure of the batched call each chunk of the batch gets a call of
\* its own ("batch_raised" marks a chunk that got none).
C5_BatchFailureFallsBack ==
    \A p \in Procs : \A i \in 1..Len(calls[p]) : calls[p][i] # "batch_raised"

\* C5 as amended: the generator makes one call per item only when the
\* client has no batched call; then a chunk whose own call succeeds gets its
\* real vector in its place of the batch and a chunk whose call raises gets
\* the zero vector.  When the batched call exists and raises, no item is
\* called and the whole batch gets zero vectors.
C5_FallbackOnlyWithoutBatchApi ==
    [][\A p \in Procs :
          pc[p] = "embed" =>
              \A i \in NewCalls(p) :
                  /\ Slot(p, i) <= Len(embeddings'[p])
                  /\ calls'[p][i] = "ok" =>
                        embeddings'[p][Slot(p, i)] = RemoteVector(chunks[p][i].text)
                  /\ calls'[p][i] = "raised" =>
                        ~batch_api /\ embeddings'[p][Slot(p, i)] = ZeroVector
                  /\ calls'[p][i] = "batch_raised" =>
                        /\ batch_api
                        /\ \A j \in NewCalls(p) :
                              /\ calls'[p][j] = "batch_raised"
                              /\ embeddings'[p][Slot(p, j)] = ZeroVector]_vars

\* without the batched call, one chunk of a batch failed and another one of
\* the same batch kept its real vector
C5_Witness ==
    \E p \in Procs :
        /\ ~batch_api
        /\ pc[p] = "embed_end"
        /\ Len(embeddings[p]) = Len(chunks[p])
        /\ \E i, j \in 1..Len(chunks[p]) :
              /\ calls[p][i] = "raised" /\ embeddings[p][i] = ZeroVector
              /\ calls[p][j] = "ok"
              /\ embeddings[p][j] = RemoteVector(chunks[p][j].text)

\* C6: whatever rag_chat returns carries the fields answer, matches and
\* context_used.
C6_ChatAnswerShape ==
    \A p \in Procs :
        chat_pc[p] = "returned" =>
            {"answer", "matches", "context_used"} \subseteq DOMAIN chat_result[p]

\* C7: rag_chat for a user who has no stored index (and no build running)
\* returns the not-found answer with matches = [] and context_used = 0.
C7_NoIndexNotFound ==
    \A p \in Procs :
        (/\ chat_pc[p] = "returned"
         /\ \A q \in Procs : user_id[q] = user_id[p] => pc[q] = "idle"
         /\ ~ragDoc[user_id[p]].exists
         /\ DOMAIN ragChunks[user_id[p]] = {}) =>
            /\ chat_result[p].answer = "NOT_FOUND"
            /\ chat_result[p].matches = <<>>
            /\ "context_used" \in DOMAIN chat_result[p]
            /\ chat_result[p].context_used = 0

\* C8 as stated: a build that returned normally left an index populated by
\* itself: the document exists and at least one chunk record is its own.
C8_ReturnMeansPopulated ==
    \A p \in Procs :
        pc[p] = "returned" =>
            /\ ragDoc[user_id[p]].exists
            /\ WrittenBy(user_id[p], p) # {}

\* C8 as amended: a build (alone on its user) that returned normally either
\* found no page or no chunk and wrote no chunk record, or stored all its
\* n >= 1 chunks: the document exists with total_chunks = n and chunk_<k>
\* holds its chunk k for every k < n.
C8_ReturnPopulatedOrNoChunks ==
    \A p \in Procs :
        pc[p] = "returned" =>
            IF chunks[p] = <<>> THEN WrittenBy(user_id[p], p) = {}
            ELSE /\ ragDoc[user_id[p]].exists
                 /\ ragDoc[user_id[p]].metadata.total_chunks = Len(chunks[p])
                 /\ \A k \in 0..(Len(chunks[p]) - 1) :
                        /\ k \in DOMAIN ragChunks[user_id[p]]
                        /\ ragChunks[user_id[p]][k].id = chunks[p][k + 1].id

\* a build whose pages are all empty returned normally and the earlier
\* index is still there
C8_Witness ==
    \E p \in Procs :
        /\ pc[p] = "returned"
        /\ pages[p] # <<>>
        /\ chunks[p] = <<>>
        /\ ragDoc[user_id[p]].exists
        /\ WrittenBy(user_id[p], p) = {}

\* C9 as stated: after a failure of the delete of the old index, of the
\* metadata write or of a batch commit, the build raises.
C9_StoreFailureIsFatal ==
    \A p \in Procs :
        faults[p]["delete"] + faults[p]["set"] + faults[p]["commit"] > 0 =>
            pc[p] \in Raising

\* C9 as amended: after a failure of the metadata write or of a batch
\* commit the build (alone on its user) raises, and what was written before
\* stays: after a failed commit the document and the records of the batches
\* committed before it are still stored.  (A failure of the delete is
\* caught in clear_old_vectors.)
C9_WriteFailureIsFatal ==
    \A p \in Procs :
        faults[p]["set"] + faults[p]["commit"] > 0 =>
            /\ pc[p] \in Raising
            /\ faults[p]["commit"] > 0 =>
                  /\ ragDoc[user_id[p]] =
                        IndexDoc(user_id[p], Len(chunks[p]), unique_pages(p))
                  /\ \A k \in 0..(batch_start[p] - 1) :
                        /\ k \in DOMAIN ragChunks[user_id[p]]
                        /\ ragChunks[user_id[p]][k] = chunks_with_vectors(p)[k + 1]

\* the second commit of a build failed, the build raised, and the records
\* of the first batch are stored
C9_Witness ==
    \E p \in Procs :
        /\ pc[p] = "raised"
        /\ faults[p]["commit"] > 0
        /\ batch_start[p] = STORE_BATCH_SIZE
        /\ Cardinality(WrittenBy(user_id[p], p)) = STORE_BATCH_SIZE

\* C10: as long as the only calls of a build that raised are status writes
\* of log_step, the build is not failing.
C10_StatusWriteFailureHarmless ==
    \A p \in Procs :
        (FaultsOf(p) > 0 /\ FaultsOf(p) = faults[p]["log"]) => pc[p] \notin Raising

\* C11: no chunk whose stored embedding is the all-zero vector is among the
\* matches search_similar_chunks returns, whatever the query and the index.
C11_ZeroVectorNeverReturned ==
    \A p \in Procs : \A i \in 1..Len(chat_matches[p]) :
        /\ chat_matches[p][i].chunk.embedding # ZeroVector
        /\ NormSq(chat_matches[p][i].chunk.embedding) > 0

\* a search over an index that holds a zero vector and a real one returned
\* the real one alone
C11_Witness ==
    \E p \in Procs :
        /\ chat_pc[p] = "returned"
        /\ Quiescent(user_id[p])
        /\ chat_matches[p] # <<>>
        /\ \E k \in DOMAIN ragChunks[user_id[p]] :
               ragChunks[user_id[p]][k].embedding = ZeroVector

\* the scores of two matches are equal
SameScore(a, b) == ~ScoreLess(a.score, b.score) /\ ~ScoreLess(b.score, a.score)

\* C12: the matches a search returns are in one fixed order, in which
\* chunks of equal similarity come by ascending chunk_index.
C12_TiesByChunkIndex ==
    \A p \in Procs : \A i, j \in 1..Len(chat_matches[p]) :
        (i < j /\ SameScore(chat_matches[p][i], chat_matches[p][j])) =>
            chat_matches[p][i].metadata.chunk_index <= chat_matches[p][j].metadata.chunk_index

\* the chunk records of user u whose embedding has a norm above 0
NonZeroStored(u) ==
    {k \in DOMAIN ragChunks[u] : NormSq(ragChunks[u][k].embedding) > 0}

\* the last search_similar_chunks of p has returned and none of its remote
\* calls raised
SearchSucceeded(p) ==
    chat_pc[p] = "returned" /\ faults[p]["embed"] = 0 /\ faults[p]["read"] = 0

\* C13: a search whose calls succeed returns min(top_k, number of stored
\* chunks of non-zero norm) matches, in non-increasing order of score, and
\* no stored chunk it left out scores above the last one returned; over an
\* empty index it returns the empty list.
C13_TopKOfNonZero ==
    \A p \in Procs :
        (SearchSucceeded(p) /\ Quiescent(user_id[p])) =>
            LET u == user_id[p]
                m == chat_matches[p]
                returned == {m[i].chunk : i \in 1..Len(m)}
            IN  /\ Len(m) = Min(TOP_K, Cardinality(NonZeroStored(u)))
                /\ \A i, j \in 1..Len(m) : i < j => ~ScoreLess(m[i].score, m[j].score)
                /\ \A k \in NonZeroStored(u) :
                       ragChunks[u][k] \notin returned =>
                           /\ m # <<>>
                           /\ ~ScoreLess(m[Len(m)].score,
                                         Similarity(query_embedding[p], ragChunks[u][k].embedding))
                /\ DOMAIN ragChunks[u] = {} => m = <<>>

\* C14: when the retrieval step of rag_chat returns no match, rag_chat
\* makes no generation call and returns the fixed not-found response.
C14_NoMatchNoGeneration ==
    \A p \in Procs :
        (chat_pc[p] = "returned" /\ chat_matches[p] = <<>>) =>
            /\ ~gen_called[p]
            /\ faults[p]["generate"] = 0
            /\ chat_result[p] = NotFoundAnswer

\* a question whose search found no match has been answered, every call
\* of it having succeeded, and the build of the same user is about to
\* commit its chunk records over an index without a usable vector
C14_Witness ==
    \E p \in Procs :
        /\ chat_pc[p] = "returned"
        /\ chat_matches[p] = <<>>
        /\ FaultsOf(p) = 0
        /\ pc[1] = "commit"
        /\ \A k \in DOMAIN ragChunks[user_id[p]] :
               ragChunks[user_id[p]][k].embedding = ZeroVector

\* C15: when the query-embedding call or a read of the stored index raises
\* inside rag_chat, rag_chat does not raise and returns the apologetic
\* error answer, which differs from the not-found answer.
C15_RetrievalFailureApologizes ==
    \A p \in Procs :
        (chat_pc[p] = "returned" /\ faults[p]["embed"] + faults[p]["read"] > 0) =>
            /\ chat_result[p].answer = ErrorAnswer.answer
            /\ chat_result[p] # NotFoundAnswer

\* the node holds no usable API key: it is absent, has no apiKey, or the
\* apiKey is empty or blank
NoCredential(snapshot) ==
    \/ ~snapshot.exists
    \/ "apiKey" \notin DOMAIN snapshot.fields
    \/ \A i \in 1..Len(snapshot.fields["apiKey"]) : IsSpace(snapshot.fields["apiKey"][i])

\* C16: for a user without AI settings or with an empty or blank API key
\* the constructor never completes: it raises, with a message that names
\* what is missing (when the settings could be read at all), and for an
\* object of that user no build and no chat ever starts: no page is read,
\* no embedding or generation call is made, no index record is written.
C16_NoCredentialNoPipeline ==
    \A p \in Procs :
        NoCredential(settings[user_id[p]]) =>
            /\ ctor[p] \in {"new", "raised"}
            /\ genai_client[p] = NoClient
            /\ pc[p] = "idle" /\ chat_pc[p] = "idle"
            /\ pages[p] = <<>> /\ calls[p] = <<>> /\ ~gen_called[p]
            /\ FaultsOf(p) = faults[p]["settings"]
            /\ WrittenBy(user_id[p], p) = {}
            /\ (ctor[p] = "raised" /\ faults[p]["settings"] = 0) =>
                  init_error[p] = <<INIT_FAILED,
                                    IF settings[user_id[p]].exists THEN NO_API_KEY
                                    ELSE NO_SETTINGS>>

\* the constructor raised for a user whose API key is blank, naming the key
C16_Witness ==
    \E p \in Procs :
        /\ ctor[p] = "raised"
        /\ settings[user_id[p]] = SettingsWith([apiKey |-> <<" ">>])
        /\ init_error[p] = <<INIT_FAILED, NO_API_KEY>>

\* process p takes the step
Stepped(p) == pc'[p] # pc[p] \/ batch_start'[p] # batch_start[p]

\* the records of user u
RecordsOf(u) == <<ragDoc[u], ragChunks[u], rtdbRag[u], currentStep[u]>>

\* the index of the user of p is what the build p alone leaves: the
\* metadata and the status of its n chunks, its chunk k in chunk_<k> for
\* k < n and, above n, the records the earlier index had there
SoloIndex(p) ==
    LET u == user_id[p]
        n == Len(chunks[p])
    IN  /\ ragDoc[u] = IndexDoc(u, n, unique_pages(p))
        /\ rtdbRag[u] = StatusNode(u, n, unique_pages(p))
        /\ \A k \in 0..(n - 1) :
               k \in DOMAIN ragChunks[u] /\ ragChunks[u][k] = chunks_with_vectors(p)[k + 1]
        /\ \A k \in DOMAIN ragChunks[u] \ 0..(n - 1) :
               ragChunks[u][k] = PriorChunk(u, k, ragChunks[u][k].metadata.total_chunks)

\* the index of user u is the one an earlier build left
PriorIndex(u) ==
    \E m \in 0..MaxPrior :
        ragDoc[u] = PriorDoc(u, m) /\ ragChunks[u] = PriorChunks(u, m)
                                   /\ rtdbRag[u] = PriorStatus(u, m)

\* a build that returned left the index it leaves when it runs alone
C17_FinalIndexIsSolo ==
    \A p \in Procs :
        pc[p] = "returned" =>
            IF chunks[p] = <<>> THEN PriorIndex(user_id[p]) ELSE SoloIndex(p)

\* C17: builds for different users are independent under any interleaving:
\* a step of a build leaves the metadata record, the chunk records, the
\* status record and the current-step record of every other user
\* unchanged, and a build that returned has left its user the index it
\* leaves when it runs alone.
C17_UsersIndependent ==
    /\ [][\A u \in Users :
             (\A p \in Procs : user_id[p] = u => ~Stepped(p)) =>
                 RecordsOf(u)' = RecordsOf(u)]_vars
    /\ []C17_FinalIndexIsSolo

\* the two builds, run at once, have both stored chunks and returned, and
\* neither has written a record of the other user
C17_Witness ==
    /\ pc[1] = "returned" /\ pc[3] = "returned"
    /\ chunks[1] # <<>> /\ chunks[3] # <<>>
    /\ WrittenBy("u1", 1) # {} /\ WrittenBy("u2", 3) # {}
    /\ WrittenBy("u1", 3) = {} /\ WrittenBy("u2", 1) = {}

\* positions of a build that has not yet run a line of the try of
\* store_vectors_in_firestore
BeforeStore == {"idle", "load", "chunk", "embed_start", "embed", "embed_end",
                "store_begin", "clear"}

\* C18: two builds of one user whose store steps overlap can both return
\* normally and leave a corrupt index (C18_Witness is such a state: the
\* chunk records of one build under the metadata of the other).  What
\* holds in every run is only this: a build that has returned while the
\* other build of the user has not yet entered its store step has left
\* the index it leaves when it runs alone.
C18_IntactWithoutOverlap ==
    \A p, q \in Procs :
        (/\ p # q /\ user_id[p] = user_id[q]
         /\ pc[p] = "returned" /\ chunks[p] # <<>>
         /\ pc[q] \in BeforeStore
         /\ \A r \in Procs \ {p, q} : pc[r] = "idle") =>
            SoloIndex(p)

\* both builds of the user have returned normally, no call has raised and
\* the index was empty before: every chunk record stored is one of the
\* first build, two of them, and the metadata and the status say
\* total_chunks = 1, as the second build wrote them
C18_Witness ==
    /\ pc[1] = "returned" /\ pc[2] = "returned"
    /\ TotalFaults = 0
    /\ Len(chunks[1]) = 2 /\ Len(chunks[2]) = 1
    /\ DOMAIN ragChunks["u1"] = {0, 1}
    /\ WrittenBy("u1", 1) = {0, 1}
    /\ ragDoc["u1"].metadata.total_chunks = 1
    /\ rtdbRag["u1"].total_chunks = 1

\* positions of a build inside store_vectors_in_firestore
InStore == {"clear", "meta", "commit", "status", "store_except"}

\* C19: a rag_chat that runs while a build of the same user is at any
\* position, its store step included, is not held up by it (C19_Witness
\* is a chat that read the index and returned inside the store step) and,
\* whatever part of the index it read, returns a valid result: when its
\* generation call does not raise, the not-found response or an answer
\* over the matches it found, never the error answer.
C19_ChatDuringBuildIsValid ==
    \A p \in Procs :
        (chat_pc[p] = "returned" /\ faults[p]["generate"] = 0) =>
            \/ chat_result[p] = NotFoundAnswer /\ chat_matches[p] = <<>>
            \/ /\ chat_matches[p] # <<>>
               /\ \E gen \in GenOutcomes \ {"raise"} :
                      chat_result[p] = FoundAnswer(AnswerOf(gen), chat_matches[p])
               /\ chat_result[p].context_used = Len(chat_matches[p])
               /\ chat_result[p].answer # ErrorAnswer.answer

\* a question has been answered from chunk records of the running build
\* while that build is still inside store_vectors_in_firestore
C19_Witness ==
    \E p, b \in Procs :
        /\ user_id[p] = user_id[b]
        /\ pc[b] \in InStore
        /\ chat_pc[p] = "returned"
        /\ chat_result[p] # NotFoundAnswer /\ chat_result[p] # ErrorAnswer
        /\ \E i \in 1..Len(chat_matches[p]) : chat_matches[p][i].chunk.id[1] = b

\* the places in chunks[p] of the chunks of page pid
ChunksOfPage(p, pid) == {i \in 1..Len(chunks[p]) : chunks[p][i].metadata.page_id = pid}

\* C20: in the list create_chunks_with_metadata has just returned (the
\* build is about to embed it), the chunks of a
\* page that gave n >= 1 chunks carry chunk_index 0 .. n-1 in output order
\* (so the count starts again at 0 with every page), each with
\* total_chunks = n, chunk_index < total_chunks and char_count = the
\* length of its text.
C20_ChunkIndexPerPage ==
    \A p \in Procs :
        pc[p] = "embed_start" =>
            \A i \in 1..Len(chunks[p]) :
                LET md == chunks[p][i].metadata
                    own == ChunksOfPage(p, md.page_id)
                IN  /\ md.chunk_index = Cardinality({j \in own : j < i})
                    /\ md.total_chunks = Cardinality(own)
                    /\ md.chunk_index < md.total_chunks
                    /\ md.char_count = Len(chunks[p][i].text)

\* two long pages were chunked: the first chunk of the second page has
\* chunk_index 0 again, the last one of the first page BigPage - 1
C20_Witness ==
    \E p \in Procs :
        /\ pc[p] = "embed_start"
        /\ Len(chunks[p]) = 2 * BigPage
        /\ chunks[p][BigPage].metadata.page_id = 1
        /\ chunks[p][BigPage].metadata.chunk_index = BigPage - 1
        /\ chunks[p][BigPage + 1].metadata.page_id = 2
        /\ chunks[p][BigPage + 1].metadata.chunk_index = 0

\* the body of the page holds no text: it is empty or markup only
Blank(page) == \A i \in 1..Len(page.content) : IsMarkup(page.content[i])

\* the pages of the list that hold text, in their order
WithText(ps) == SelectSeq(ps, LAMBDA page : ~Blank(page))

\* C22: a page whose body is absent, empty or without text gives no chunk
\* and no error in create_chunks_with_metadata (the call raises only when
\* one of its status writes raises), and the chunks of the other pages are
\* those the call returns for these pages alone: same texts, chunk_index
\* and total_chunks, in the same order.
C22_BlankPagesSkipped ==
    [][\A p \in Procs :
          (pc[p] = "chunk" /\ pc'[p] # "chunk") =>
              \/ faults'[p]["log"] > faults[p]["log"]
              \/ /\ pc'[p] \in {"embed_start", "returned"}
                 /\ \A j \in 1..Len(pages[p]) :
                        Blank(pages[p][j]) =>
                            \A i \in 1..Len(chunks'[p]) :
                                chunks'[p][i].metadata.page_id # pages[p][j].id
                 /\ chunks'[p] = AllChunks(p, WithText(pages[p]), <<>>)
                 /\ (pc'[p] = "returned") = (WithText(pages[p]) = <<>>)]_vars

\* a page with an empty body and a page with text blocks inside markup
\* were chunked: the two chunks are those of the second page
C22_Witness ==
    \E p \in Procs :
        /\ pc[p] = "embed_start"
        /\ Len(pages[p]) = 2
        /\ pages[p][1].content = <<>>
        /\ Len(chunks[p]) = 2
        /\ \A i \in 1..2 :
               /\ chunks[p][i].metadata.page_id = pages[p][2].id
               /\ chunks[p][i].metadata.chunk_index = i - 1
               /\ chunks[p][i].metadata.total_chunks = 2

\* C23: when a build that stored chunks has returned, every chunk record
\* of the user carries embedding_dimension = 768, the output size of the
\* embedding model, which is also the length of the embedding of the
\* record, be it a vector of the model or a zero vector put in its place.
C23_OneEmbeddingDimension ==
    \A p \in Procs :
        (pc[p] = "returned" /\ chunks[p] # <<>>) =>
            \A k \in DOMAIN ragChunks[user_id[p]] :
                LET rec == ragChunks[user_id[p]][k]
                IN  /\ rec.embedding_dimension = EMBED_DIM
                    /\ rec.embedding_dimension = VecLen(rec.embedding)

\* a build has returned and has stored a zero vector, put in for a chunk
\* whose embedding call raised, beside a vector of the model
C23_Witness ==
    \E p \in Procs :
        /\ pc[p] = "returned"
        /\ \E i \in 1..Len(calls[p]) : calls[p][i] = "raised"
        /\ \E j, k \in WrittenBy(user_id[p], p) :
               /\ ragChunks[user_id[p]][j].embedding = ZeroVector
               /\ ragChunks[user_id[p]][k].embedding # ZeroVector

\* the vector chunk i of build p is due: the vector of the model for its
\* text when its embedding call returned, the zero vector when it raised
DueVector(p, i) ==
    IF calls[p][i] = "ok" THEN RemoteVector(chunks[p][i].text) ELSE ZeroVector

\* C24: when a build has returned, every chunk i of its chunk list (counted
\* from 0) is stored under chunk_<i>, in a record that holds the id, the
\* text and the metadata of chunk i and the vector computed for chunk i, or
\* the zero vector when the embedding call for chunk i raised, and no
\* record of the build is stored under another id.
C24_RecordPairsChunkWithItsVector ==
    \A p \in Procs :
        (pc[p] = "returned" /\ chunks[p] # <<>>) =>
            /\ WrittenBy(user_id[p], p) = 0..(Len(chunks[p]) - 1)
            /\ \A k \in 0..(Len(chunks[p]) - 1) :
                   /\ k \in DOMAIN ragChunks[user_id[p]]
                   /\ ragChunks[user_id[p]][k].id = chunks[p][k + 1].id
                   /\ ragChunks[user_id[p]][k].text = chunks[p][k + 1].text
                   /\ ragChunks[user_id[p]][k].metadata = chunks[p][k + 1].metadata
                   /\ ragChunks[user_id[p]][k].embedding = DueVector(p, k + 1)

\* the context blocks of the last rag_chat of p list its matches, numbered
\* from 1 in retrieval order
ContextListsMatches(p) ==
    /\ Len(chat_context[p]) = Len(chat_matches[p])
    /\ \A i \in 1..Len(chat_matches[p]) :
           /\ chat_context[p][i].i = i
           /\ chat_context[p][i].page_name = chat_matches[p][i].metadata.page_name
           /\ chat_context[p][i].chunk_index = chat_matches[p][i].metadata.chunk_index
           /\ chat_context[p][i].score = chat_matches[p][i].score
           /\ chat_context[p][i].text = chat_matches[p][i].chunk.text

\* the answer of the last rag_chat of p lists its matches in retrieval
\* order and counts them in context_used
AnswerListsMatches(p) ==
    /\ Len(chat_result[p].matches) = Len(chat_matches[p])
    /\ \A i \in 1..Len(chat_matches[p]) :
           /\ chat_result[p].matches[i].page_name = chat_matches[p][i].metadata.page_name
           /\ chat_result[p].matches[i].chunk_index = chat_matches[p][i].metadata.chunk_index
           /\ chat_result[p].matches[i].score = chat_matches[p][i].score
    /\ "context_used" \in DOMAIN chat_result[p]
    /\ chat_result[p].context_used = Len(chat_matches[p])

\* C25 as stated: whenever rag_chat found k >= 1 matches, its context
\* lists them numbered 1..k in retrieval order, the matches of the answer
\* it returns are the same k entries in the same order and context_used
\* is k.
C25_MatchesEchoed ==
    \A p \in Procs :
        (chat_pc[p] = "returned" /\ chat_matches[p] # <<>>) =>
            ContextListsMatches(p) /\ AnswerListsMatches(p)

\* C25 as amended: whenever rag_chat found k >= 1 matches, its context
\* lists them numbered 1..k in retrieval order; when the generation call
\* returns, the matches of the answer are the same k entries in the same
\* order and context_used is k; when the generation call raises, the
\* answer is the error answer, whose matches are empty.
C25_MatchesEchoedUnlessGenerationRaises ==
    \A p \in Procs :
        (chat_pc[p] = "returned" /\ chat_matches[p] # <<>>) =>
            /\ ContextListsMatches(p)
            /\ IF faults[p]["generate"] = 0 THEN AnswerListsMatches(p)
               ELSE chat_result[p] = ErrorAnswer /\ chat_result[p].matches = <<>>

\* a question was answered over TOP_K matches of unequal scores, the
\* generation call having returned
C25_Witness ==
    \E p \in Procs :
        /\ chat_pc[p] = "returned"
        /\ Len(chat_matches[p]) = TOP_K
        /\ faults[p]["generate"] = 0
        /\ chat_result[p].context_used = TOP_K
        /\ chat_context[p][TOP_K].i = TOP_K
        /\ ScoreLess(chat_matches[p][TOP_K].score, chat_matches[p][1].score)

\* the texts of the chunks of build p, in order
TextsOf(p) == [i \in 1..Len(chunks[p]) |-> chunks[p][i].text]

\* C26: the status writes inside generate_embeddings have no part in what
\* it returns: two calls of generate_embeddings that were given chunks of
\* the same texts and whose embedding calls ended the same way have
\* returned the same list of vectors, whatever their progress writes did.
C26_ProgressWritesDoNotChangeVectors ==
    \A p, q \in Procs :
        (/\ pc[p] = "store_begin" /\ pc[q] = "store_begin"
         /\ TextsOf(p) = TextsOf(q)
         /\ calls[p] = calls[q]) =>
            embeddings[p] = embeddings[q]

\* C27: with the builds of a user run one after the other, in every state,
\* also after a failed build or a build killed inside its store step:
\* when the status record of the user says "ready" with total_chunks = n,
\* the document rag/<user> exists and the chunk records of the user are
\* exactly chunk_0 .. chunk_<n-1>, all written by one build.
C27_ReadyMeansWholeIndex ==
    \A u \in Users :
        (rtdbRag[u].exists /\ rtdbRag[u].status = "ready") =>
            /\ ragDoc[u].exists
            /\ DOMAIN ragChunks[u] = 0..(rtdbRag[u].total_chunks - 1)
            /\ \E r \in {0} \cup Procs : WrittenBy(u, r) = DOMAIN ragChunks[u]

\* positions of a build before store_vectors_in_firestore is called
BeforeStoreStep == {"idle", "load", "chunk", "embed_start", "embed", "embed_end"}

\* the stored index of user u: metadata record, chunk records, status record
IndexOf(u) == <<ragDoc[u], ragChunks[u], rtdbRag[u]>>

\* a run of p that ended before it had a chunk (no page, no chunk, or the
\* loading or the chunking raised) left the index of its user as the
\* earlier build left it
C28_EarlyEndKeepsIndex ==
    \A p \in Procs :
        (pc[p] \in {"returned", "except", "raised"} /\ chunks[p] = <<>>) =>
            PriorIndex(user_id[p])

\* C28: a step of build_rag_index taken before the store step (loading,
\* chunking, embedding, with their status writes to currentStep) leaves
\* the metadata record, the chunk records and the status record of every
\* user as they were, and a run that ends early, because no page or no
\* chunk was found or because loading raised, leaves the earlier index
\* exactly as it was.
C28_NoIndexWriteBeforeStore ==
    /\ [][\A p \in Procs :
             (pc[p] \in BeforeStoreStep /\ Stepped(p)) =>
                 \A u \in Users : IndexOf(u)' = IndexOf(u)]_vars
    /\ []C28_EarlyEndKeepsIndex

\* the read of the page index raised and build_rag_index raised in turn,
\* having written its status to currentStep; the earlier index is stored
C28_Witness ==
    \E p \in Procs :
        /\ pc[p] = "raised"
        /\ faults[p]["pages"] = 1
        /\ currentStep[user_id[p]].exists
        /\ ragDoc[user_id[p]].exists
        /\ DOMAIN ragChunks[user_id[p]] # {}
        /\ PriorIndex(user_id[p])

\* C29: when store_vectors_in_firestore has returned normally for the n
\* chunks of a build, drawn from a number of distinct pages, total_chunks
\* of the metadata record, total_chunks of the status record and the
\* number of chunk records stored for the user are all n, and total_pages
\* of both records is the number of pages.
C29_TotalsMatchStoredRecords ==
    \A p \in Procs :
        pc[p] = "finish" =>
            LET u == user_id[p]
                n == Len(chunks[p])
            IN  /\ ragDoc[u].exists /\ rtdbRag[u].exists
                /\ ragDoc[u].metadata.total_chunks = n
                /\ rtdbRag[u].total_chunks = n
                /\ Cardinality(DOMAIN ragChunks[u]) = n
                /\ ragDoc[u].metadata.total_pages = unique_pages(p)
                /\ rtdbRag[u].total_pages = unique_pages(p)

\* C30: main of build_index.py ends with exit status 1, and without the
\* success message, when RAGPipeline(user_id) or build_rag_index raised
\* (after a constructor that raised no build was started), and it prints
\* the success message, ending with status 0, only when build_rag_index
\* returned normally.
C30_ExitStatusTellsFailure ==
    \A p \in Procs :
        /\ ctor[p] = "raised" => pc[p] = "idle"
        /\ ~main_out[p].running =>
              /\ (ctor[p] = "raised" \/ pc[p] = "raised") =>
                     main_out[p].status = 1 /\ ~main_out[p].success
              /\ main_out[p].success =>
                     ctor[p] = "done" /\ pc[p] = "returned" /\ main_out[p].status = 0
              /\ main_out[p].status = 0 => main_out[p].success

\* build_rag_index raised inside its store step, after chunk records were
\* written, and main ended with exit status 1
C30_Witness ==
    \E p \in Procs :
        /\ ~main_out[p].running
        /\ main_out[p].status = 1
        /\ pc[p] = "raised"
        /\ WrittenBy(user_id[p], p) # {}
====
